---- MODULE Spec2Model ----
(***************************************************************************)
(* Model of the Kalshi market-maker core:                                  *)
(*   src/src/fees.py       fee economics (pure functions)                  *)
(*   src/src/orderbook.py  order book built from a bid-only snapshot       *)
(*                                                                         *)
(* Money.  fees.py computes in binary floating point.  The model computes  *)
(* the same expressions exactly, in micro-cents (1 cent = MICRO units):    *)
(*   fee_cents = rate * c * (p/100) * (1 - p/100) * 100                    *)
(*             = (rate * 10^4) * c * p * (100 - p) / 10^6   cents.         *)
(* A quotient the code returns as a float (VWAP, mid price, ROI, profit    *)
(* per contract) is kept as a fraction [num, den].                         *)
(***************************************************************************)
EXTENDS Integers, Sequences, FiniteSets, TLC

VARIABLES
    \* ---- caller of fees.py: the arguments shared by every function, the
    \* call made (function and its other arguments) and the value returned
    contracts, mid_price_cents, as_maker, call, result,
    \* ---- caller of orderbook.py
    heap,       \* the Quote objects, by identity: id -> [price, quantity]
    ob,         \* the OrderBook instance; its level lists hold Quote ids
    snapshot,   \* the OrderBookSnapshot the caller holds, or None
    pc,         \* "constructed", "snapshotted" (a snapshot was taken) or
                \* "mutated" (the caller changed the snapshot it holds); in
                \* phase3_test.py "constructed", "returned" or "evaluating"
    ret         \* the call that has returned and its value, until the caller
                \* takes it; None between calls

fee_vars == <<contracts, mid_price_cents, as_maker, call, result>>
book_vars == <<heap, ob, snapshot, pc, ret>>
vars == <<fee_vars, book_vars>>

None == [kind |-> "None"]

(***************************************************************************)
(* Bounds of the explored inputs                                           *)
(***************************************************************************)
MaxContracts == 2
MaxTarget == 2
MaxSpread == 4
MaxLevels == 2      \* raw levels of a snapshot, both sides together
MaxQuantity == 3    \* largest quantity asked of get_vwap

(***************************************************************************)
(* fees.py                                                                 *)
(***************************************************************************)
MAKER_FEE_RATE == 175      \* 0.0175, in units of 10^-4
TAKER_FEE_RATE == 700      \* 0.07,   in units of 10^-4
CENTS_PER_DOLLAR == 100    \* price_cents / 100.0
MIN_PRICE == 1             \* max(1, bid)
MAX_PRICE == 99            \* min(99, ask)
SEARCH_END == 50           \* range(1, 50) and the fallback value
EXAMPLE_TARGET == 50       \* target_profit_cents=50 of the documented example
EXAMPLE_CONTRACTS == 100   \* calculate_fee(100, 50, MAKER_FEE_RATE) of the examples

\* micro-cents in one cent: the rate unit (10^4) times the two divisions of
\* price_cents by 100, less the final "* 100" of fee_cents
MICRO == 1000000

Min2(a, b) == IF a <= b THEN a ELSE b
Max2(a, b) == IF a >= b THEN a ELSE b

\* faulty variant: the fee of each leg is rounded up to a whole cent
fee_ucents_rounded_up(c, price_cents, fee_rate) ==
    ((fee_rate * c * price_cents * (CENTS_PER_DOLLAR - price_cents) + MICRO - 1)
        \div MICRO) * MICRO

\* faulty variant: the fee is charged on the amount at risk, min(P, 1 - P)
fee_ucents_on_risk(c, price_cents, fee_rate) ==
    fee_rate * c * Min2(price_cents, CENTS_PER_DOLLAR - price_cents)
      * CENTS_PER_DOLLAR

\* faulty variant: the fee is charged on the price paid, the factor (1 - P) lost
fee_ucents_on_price(c, price_cents, fee_rate) ==
    fee_rate * c * price_cents * CENTS_PER_DOLLAR

\* faulty variant: the fee is charged on the distance of the price from the mid
fee_ucents_off_mid(c, price_cents, fee_rate) ==
    fee_rate * c * (price_cents - (CENTS_PER_DOLLAR \div 2))
      * (price_cents - (CENTS_PER_DOLLAR \div 2))

\* fee_cents of calculate_fee, in micro-cents
fee_ucents(c, price_cents, fee_rate) ==
    fee_rate * c * price_cents * (CENTS_PER_DOLLAR - price_cents)

\* calculate_fee: price_decimal and risk_per_contract in cents (x/100 dollars),
\* total_risk in cents, fee_dollars as a fraction of a dollar, fee_cents in
\* micro-cents (fee_dollars * 100).
calculate_fee(c, price_cents, fee_rate) ==
    LET price_decimal     == price_cents
        risk_per_contract == Min2(price_decimal, CENTS_PER_DOLLAR - price_decimal)
        fee               == fee_ucents(c, price_cents, fee_rate)
    IN  [ contracts          |-> c,
          price_cents       |-> price_cents,
          price_decimal_c   |-> price_decimal,
          risk_per_contract_c |-> risk_per_contract,
          total_risk_c      |-> c * risk_per_contract,
          fee_dollars       |-> [num |-> fee, den |-> MICRO * CENTS_PER_DOLLAR],
          fee_ucents        |-> fee,
          fee_rate          |-> fee_rate ]

calculate_maker_fee(c, price_cents) ==
    calculate_fee(c, price_cents, MAKER_FEE_RATE)

\* faulty variant: the taker fee is charged at the maker rate
calculate_taker_fee_at_maker_rate(c, price_cents) ==
    calculate_fee(c, price_cents, MAKER_FEE_RATE)

calculate_taker_fee(c, price_cents) ==
    calculate_fee(c, price_cents, TAKER_FEE_RATE)

\* faulty variant: the two rates are exchanged
FeeRate_swapped(maker) == IF maker THEN TAKER_FEE_RATE ELSE MAKER_FEE_RATE

FeeRate(maker) == IF maker THEN MAKER_FEE_RATE ELSE TAKER_FEE_RATE

calculate_round_trip_fee(c, entry_price_cents, exit_price_cents, maker) ==
    LET fee_rate  == FeeRate(maker)
        entry_fee == calculate_fee(c, entry_price_cents, fee_rate)
        exit_fee  == calculate_fee(c, exit_price_cents, fee_rate)
    IN  entry_fee.fee_ucents + exit_fee.fee_ucents

\* faulty variant: only the entry leg is charged
total_fees_entry_leg_only(c, entry_price_cents, exit_price_cents, maker) ==
    fee_ucents(c, entry_price_cents, FeeRate(maker))

\* the fields of analyze_profitability the spread searches read
total_fees_ucents(c, entry_price_cents, exit_price_cents, maker) ==
    fee_ucents(c, entry_price_cents, FeeRate(maker))
      + fee_ucents(c, exit_price_cents, FeeRate(maker))

\* faulty variant: the fees are not subtracted
net_profit_without_fees(c, entry_price_cents, exit_price_cents, maker) ==
    (exit_price_cents - entry_price_cents) * c * MICRO

\* faulty variant: the fees are added to the gross profit
net_profit_with_fees_added(c, entry_price_cents, exit_price_cents, maker) ==
    (exit_price_cents - entry_price_cents) * c * MICRO
      + total_fees_ucents(c, entry_price_cents, exit_price_cents, maker)

net_profit_ucents(c, entry_price_cents, exit_price_cents, maker) ==
    (exit_price_cents - entry_price_cents) * c * MICRO
      - total_fees_ucents(c, entry_price_cents, exit_price_cents, maker)

is_profitable(c, entry_price_cents, exit_price_cents, maker) ==
    net_profit_ucents(c, entry_price_cents, exit_price_cents, maker) > 0

analyze_profitability(c, entry_price_cents, exit_price_cents, maker) ==
    LET fee_rate  == FeeRate(maker)
        spread    == exit_price_cents - entry_price_cents
        gross     == spread * c * MICRO
        net       == net_profit_ucents(c, entry_price_cents, exit_price_cents, maker)
        \* capital_at_risk = entry * contracts / 100 dollars: in cents
        capital_c == entry_price_cents * c
    IN  [ contracts          |-> c,
          entry_price_cents  |-> entry_price_cents,
          exit_price_cents   |-> exit_price_cents,
          spread_cents       |-> spread,
          gross_profit_ucents |-> gross,
          entry_fee          |-> calculate_fee(c, entry_price_cents, fee_rate),
          exit_fee           |-> calculate_fee(c, exit_price_cents, fee_rate),
          total_fees_ucents  |-> total_fees_ucents(c, entry_price_cents,
                                                   exit_price_cents, maker),
          net_profit_ucents  |-> net,
          is_profitable      |-> is_profitable(c, entry_price_cents,
                                               exit_price_cents, maker),
          profit_per_contract |-> IF c > 0 THEN [num |-> net, den |-> c * MICRO]
                                          ELSE [num |-> 0, den |-> 1],
          \* (net_dollars / capital_dollars) * 100, the factor 100 cancelled
          \* against MICRO
          roi_percent        |-> IF capital_c > 0
                                 THEN [num |-> net,
                                       den |-> capital_c * (MICRO \div CENTS_PER_DOLLAR)]
                                 ELSE [num |-> 0, den |-> 1] ]

\* the loop "for spread in range(1, 50)" of min_spread_for_breakeven, from
\* candidate `spread` on
RECURSIVE breakeven_loop(_, _, _, _)
breakeven_loop(spread, c, mid, maker) ==
    IF spread >= SEARCH_END THEN SEARCH_END
    ELSE LET bid == mid - (spread \div 2)
             ask == mid + (spread \div 2)
         IN  IF bid < MIN_PRICE \/ ask > MAX_PRICE
             THEN breakeven_loop(spread + 1, c, mid, maker)
             ELSE IF is_profitable(c, bid, ask, maker)
                  THEN spread
                  ELSE breakeven_loop(spread + 1, c, mid, maker)


\* the loop of min_spread_for_profit; target in micro-cents
RECURSIVE profit_loop(_, _, _, _, _)
profit_loop(spread, c, mid, target, maker) ==
    IF spread >= SEARCH_END THEN SEARCH_END
    ELSE LET bid == mid - (spread \div 2)
             ask == mid + (spread \div 2)
         IN  IF bid < MIN_PRICE \/ ask > MAX_PRICE
             THEN profit_loop(spread + 1, c, mid, target, maker)
             ELSE IF net_profit_ucents(c, bid, ask, maker) >= target
                  THEN spread
                  ELSE profit_loop(spread + 1, c, mid, target, maker)

\* faulty variant: breaking even taken as net >= 0 instead of net > 0
min_spread_for_breakeven_ge(c, mid, maker) == profit_loop(1, c, mid, 0, maker)

min_spread_for_breakeven(c, mid, maker) == breakeven_loop(1, c, mid, maker)

\* faulty variant: the target is ignored, the search stops at the breakeven spread
min_spread_for_profit_no_target(c, mid, target, maker) ==
    breakeven_loop(1, c, mid, maker)

\* faulty variant: the half-spread (the distance of each quote from the mid) is
\* returned in place of the spread
min_spread_for_profit_half_spread(c, mid, target, maker) ==
    profit_loop(1, c, mid, target, maker) \div 2

min_spread_for_profit(c, mid, target, maker) ==
    profit_loop(1, c, mid, target, maker)

\* bid and ask as should_quote_market and expected_profit_per_round_trip
\* derive them: only the low side of bid and the high side of ask are clamped
quote_bid(spread, mid) == Max2(MIN_PRICE, mid - (spread \div 2))
quote_ask(spread, mid) == Min2(MAX_PRICE, mid + (spread \div 2))

\* faulty variant: the round trip is entered at the ask and left at the bid
expected_profit_per_round_trip_sell_first(spread, c, mid, maker) ==
    net_profit_ucents(c, quote_ask(spread, mid), quote_bid(spread, mid), maker)

expected_profit_per_round_trip(spread, c, mid, maker) ==
    net_profit_ucents(c, quote_bid(spread, mid), quote_ask(spread, mid), maker)

\* faulty variant: the decision is taken on the prices before clamping
should_quote_market_unclamped(spread, c, mid, min_profit, maker) ==
    LET bid      == quote_bid(spread, mid)
        ask      == quote_ask(spread, mid)
        analysis == analyze_profitability(c, bid, ask, maker)
        should_quote == net_profit_ucents(c, mid - (spread \div 2),
                            mid + (spread \div 2), maker) >= min_profit
    IN  [ should_quote    |-> should_quote,
          reason          |-> IF should_quote THEN "Profitable" ELSE "Unprofitable",
          analysis        |-> analysis,
          recommended_bid |-> bid,
          recommended_ask |-> ask,
          min_profitable_spread |-> min_spread_for_profit(c, mid, min_profit, maker),
          breakeven_spread      |-> min_spread_for_breakeven(c, mid, maker) ]

should_quote_market(spread, c, mid, min_profit, maker) ==
    LET bid      == quote_bid(spread, mid)
        ask      == quote_ask(spread, mid)
        analysis == analyze_profitability(c, bid, ask, maker)
        should_quote == analysis.net_profit_ucents >= min_profit
    IN  [ should_quote    |-> should_quote,
          reason          |-> IF should_quote THEN "Profitable" ELSE "Unprofitable",
          analysis        |-> analysis,
          recommended_bid |-> bid,
          recommended_ask |-> ask,
          min_profitable_spread |-> min_spread_for_profit(c, mid, min_profit, maker),
          breakeven_spread      |-> min_spread_for_breakeven(c, mid, maker) ]

(***************************************************************************)
(* orderbook.py                                                            *)
(***************************************************************************)
PRICE_RANGE == 100         \* prices are cents in 0..100; NO bid X = YES ask 100 - X

Some(v) == [kind |-> "Some", val |-> v]
\* a float computed as num / den
Float(n, d) == [kind |-> "float", num |-> n, den |-> d]
Raise(e) == [kind |-> "raise", exc |-> e]

Quote(p, q) == [price |-> p, quantity |-> q]

\* raw_orderbook.get(key, [])
raw_get(raw, key) == IF key \in DOMAIN raw THEN raw[key] ELSE <<>>

\* faulty variant: only pairs of exactly two fields are kept
RECURSIVE _parse_bids_exactly_two(_)
_parse_bids_exactly_two(bid_list) ==
    IF bid_list = <<>> THEN <<>>
    ELSE LET b == Head(bid_list)
         IN  (IF Len(b) = 2 THEN <<Quote(b[1], b[2])>> ELSE <<>>)
               \o _parse_bids_exactly_two(Tail(bid_list))

\* _parse_bids: [Quote(b[0], b[1]) for b in bid_list if len(b) >= 2]
RECURSIVE _parse_bids(_)
_parse_bids(bid_list) ==
    IF bid_list = <<>> THEN <<>>
    ELSE LET b == Head(bid_list)
         IN  (IF Len(b) >= 2 THEN <<Quote(b[1], b[2])>> ELSE <<>>)
               \o _parse_bids(Tail(bid_list))

\* faulty variant: equal prices are not kept in their order
RECURSIVE insert_pos_unstable(_, _, _, _, _)
insert_pos_unstable(done, i, x, h, reverse) ==
    IF i > Len(done) THEN i
    ELSE IF (IF reverse THEN h[done[i]].price > h[x].price
                        ELSE h[done[i]].price < h[x].price)
         THEN insert_pos_unstable(done, i + 1, x, h, reverse)
         ELSE i

\* where sorted() puts x among the already sorted ids `done`: behind every
\* element that does not come after it (equal keys keep their order,
\* also with reverse=True)
RECURSIVE insert_pos(_, _, _, _, _)
insert_pos(done, i, x, h, reverse) ==
    IF i > Len(done) THEN i
    ELSE IF (IF reverse THEN h[done[i]].price >= h[x].price
                        ELSE h[done[i]].price <= h[x].price)
         THEN insert_pos(done, i + 1, x, h, reverse)
         ELSE i

insert_sorted(done, x, h, reverse) ==
    LET k == insert_pos(done, 1, x, h, reverse)
    IN  SubSeq(done, 1, k - 1) \o <<x>> \o SubSeq(done, k, Len(done))

\* sorted(levels, key=lambda q: q.price, reverse=reverse) over the first n ids
RECURSIVE sorted_prefix(_, _, _, _)
sorted_prefix(levels, n, h, reverse) ==
    IF n = 0 THEN <<>>
    ELSE insert_sorted(sorted_prefix(levels, n - 1, h, reverse), levels[n],
                       h, reverse)

sorted_by_price(levels, h, reverse) ==
    sorted_prefix(levels, Len(levels), h, reverse)

\* the prices, and the quantities summed, of a list of Quote ids
RECURSIVE sum_quantity(_, _)
sum_quantity(levels, h) ==
    IF levels = <<>> THEN 0
    ELSE h[Head(levels)].quantity + sum_quantity(Tail(levels), h)

RECURSIVE max_price(_, _)
max_price(levels, h) ==
    IF Len(levels) = 1 THEN h[levels[1]].price
    ELSE Max2(h[Head(levels)].price, max_price(Tail(levels), h))

RECURSIVE min_price(_, _)
min_price(levels, h) ==
    IF Len(levels) = 1 THEN h[levels[1]].price
    ELSE Min2(h[Head(levels)].price, min_price(Tail(levels), h))

IdsFrom(first, n) == [i \in 1 .. n |-> first + i - 1]

\* _convert_no_bids_to_yes_asks: the new Quote objects, in the order of no_bids
yes_ask_quotes(no_quotes) ==
    [i \in 1 .. Len(no_quotes) |->
        Quote(PRICE_RANGE - no_quotes[i].price, no_quotes[i].quantity)]

\* _calculate_metrics
best_bid_of(yes_bids, h) ==
    IF yes_bids # <<>> THEN Some(max_price(yes_bids, h)) ELSE None

best_ask_of(yes_asks, h) ==
    IF yes_asks # <<>> THEN Some(min_price(yes_asks, h)) ELSE None

\* faulty variant: the mid price and the spread are computed when either side is present
mid_price_either(bb, ba) ==
    IF bb # None \/ ba # None
    THEN Float((IF bb # None THEN bb.val ELSE 0) + (IF ba # None THEN ba.val ELSE 0), 2)
    ELSE None

mid_price_of(bb, ba) ==
    IF bb # None /\ ba # None THEN Float(bb.val + ba.val, 2) ELSE None

spread_of(bb, ba) ==
    IF bb # None /\ ba # None THEN Some(ba.val - bb.val) ELSE None

\* OrderBook.__init__: the heap holds the YES bids, the NO bids and the
\* derived asks, in that order of creation
NewHeap(raw) ==
    LET yes == _parse_bids(raw_get(raw, "yes"))
        no  == _parse_bids(raw_get(raw, "no"))
    IN  yes \o no \o yes_ask_quotes(no)

OrderBook(ticker, raw) ==
    LET yes == _parse_bids(raw_get(raw, "yes"))
        no  == _parse_bids(raw_get(raw, "no"))
        h   == NewHeap(raw)
        yes_bids == IdsFrom(1, Len(yes))
        no_bids  == IdsFrom(Len(yes) + 1, Len(no))
        yes_asks == sorted_by_price(IdsFrom(Len(yes) + Len(no) + 1, Len(no)),
                                    h, FALSE)
        bb == best_bid_of(yes_bids, h)
        ba == best_ask_of(yes_asks, h)
    IN  [ ticker    |-> ticker,
          raw       |-> raw,
          yes_bids  |-> yes_bids,
          no_bids   |-> no_bids,
          yes_asks  |-> yes_asks,
          best_bid  |-> bb,
          best_ask  |-> ba,
          mid_price |-> mid_price_of(bb, ba),
          spread    |-> spread_of(bb, ba),
          bid_depth |-> sum_quantity(yes_bids, h),
          ask_depth |-> sum_quantity(yes_asks, h) ]

\* get_snapshot: list.copy() makes a new list of the same Quote objects
get_snapshot(o) ==
    [ ticker    |-> o.ticker,
      yes_bids  |-> o.yes_bids,
      yes_asks  |-> o.yes_asks,
      best_bid  |-> o.best_bid,
      best_ask  |-> o.best_ask,
      mid_price |-> o.mid_price,
      spread    |-> o.spread,
      bid_depth |-> o.bid_depth,
      ask_depth |-> o.ask_depth ]

side_levels(o, side) == IF side = "bid" THEN o.yes_bids ELSE o.yes_asks

\* the loop of get_vwap over sorted_levels, from level i on
RECURSIVE vwap_loop(_, _, _, _, _, _)
vwap_loop(sorted_levels, i, h, quantity, total_value, total_quantity) ==
    IF i > Len(sorted_levels) \/ total_quantity >= quantity
    THEN [total_value |-> total_value, total_quantity |-> total_quantity]
    ELSE LET level       == h[sorted_levels[i]]
             qty_to_take == Min2(level.quantity, quantity - total_quantity)
         IN  vwap_loop(sorted_levels, i + 1, h, quantity,
                       total_value + level.price * qty_to_take,
                       total_quantity + qty_to_take)

\* faulty variant: bids are walked from the lowest price, like asks
vwap_levels_ascending(o, h, side) ==
    sorted_by_price(side_levels(o, side), h, FALSE)

vwap_levels(o, h, side) ==
    sorted_by_price(side_levels(o, side), h, side = "bid")

get_vwap(o, h, side, quantity) ==
    IF side_levels(o, side) = <<>> THEN None
    ELSE LET t == vwap_loop(vwap_levels(o, h, side), 1, h, quantity, 0, 0)
         IN  IF t.total_quantity < quantity THEN None
             ELSE IF t.total_quantity = 0 THEN Raise("ZeroDivisionError")
             ELSE Float(t.total_value, t.total_quantity)

\* faulty variant: the slice stops one level short
slice_to_exclusive(seq, n) ==
    IF n >= 0 THEN SubSeq(seq, 1, Min2(n - 1, Len(seq)))
    ELSE SubSeq(seq, 1, Max2(0, Len(seq) + n))

\* seq[:n] of Python
slice_to(seq, n) ==
    IF n >= 0 THEN SubSeq(seq, 1, Min2(n, Len(seq)))
    ELSE SubSeq(seq, 1, Max2(0, Len(seq) + n))

get_cumulative_depth(o, h, side, levels) ==
    IF side_levels(o, side) = <<>> THEN 0
    ELSE sum_quantity(slice_to(sorted_by_price(side_levels(o, side), h,
                                               side = "bid"), levels), h)

\* faulty variant: a locked book (bid = ask) is not reported
is_crossed_strictly(o) ==
    IF o.best_bid = None \/ o.best_ask = None THEN FALSE
    ELSE o.best_bid.val > o.best_ask.val

is_crossed(o) ==
    IF o.best_bid = None \/ o.best_ask = None THEN FALSE
    ELSE o.best_bid.val >= o.best_ask.val

is_empty(o) == Len(o.yes_bids) = 0 /\ Len(o.yes_asks) = 0

\* faulty variant: a book with no level at all is reported one-sided too
is_one_sided_or_empty(o) ==
    Len(o.yes_bids) = 0 \/ Len(o.yes_asks) = 0

is_one_sided(o) ==
    \/ Len(o.yes_bids) = 0 /\ Len(o.yes_asks) > 0
    \/ Len(o.yes_bids) > 0 /\ Len(o.yes_asks) = 0

\* faulty variant: only the first level at the price is counted
depth_loop_first_match(levels, h, price) ==
    IF \E i \in DOMAIN levels : h[levels[i]].price = price
    THEN h[levels[CHOOSE i \in DOMAIN levels :
                    /\ h[levels[i]].price = price
                    /\ \A j \in 1 .. (i - 1) : h[levels[j]].price # price]].quantity
    ELSE 0

RECURSIVE depth_loop(_, _, _)
depth_loop(levels, h, price) ==
    IF levels = <<>> THEN 0
    ELSE (IF h[Head(levels)].price = price THEN h[Head(levels)].quantity ELSE 0)
           + depth_loop(Tail(levels), h, price)

get_depth_at_price(o, h, price, side) ==
    depth_loop(side_levels(o, side), h, price)

(***************************************************************************)
(* The caller of orderbook.py: a book is constructed from a raw snapshot,  *)
(* queried, a snapshot of it is taken, and the caller changes the snapshot *)
(* it holds (once), querying the book at any point.                        *)
(***************************************************************************)
BookPrices     == {49, 50, 51}
BookQuantities == {0, 2}
Sides          == {"bid", "ask"}
\* well-formed [price, quantity] pairs, one pair that lacks its quantity and
\* one that carries a third field
RawLevels      == { <<p, q>> : p \in BookPrices, q \in BookQuantities }
                    \cup { <<50>>, <<51, 2, 7>> }

SeqsUpTo(S, n) == UNION { [1 .. k -> S] : k \in 0 .. n }

\* raw snapshots: both keys present, or the "yes" or the "no" key or both
\* missing
RawBooks ==
    UNION { { [yes |-> y, no |-> n] :
                y \in [1 .. ky -> RawLevels],
                n \in SeqsUpTo(RawLevels, MaxLevels - ky) } : ky \in 0 .. MaxLevels }
      \cup { [k \in {"yes"} |-> y] : y \in SeqsUpTo(RawLevels, MaxLevels) }
      \cup { [k \in {"no"} |-> n] : n \in SeqsUpTo(RawLevels, MaxLevels) }
      \cup { [k \in {} |-> <<>>] }

NoBook ==
    /\ heap = <<>>
    /\ ob = None
    /\ snapshot = None
    /\ pc = "none"
    /\ ret = None

NoFeeCall ==
    /\ contracts = 0
    /\ mid_price_cents = 0
    /\ as_maker = TRUE
    /\ call = None
    /\ result = None

Init ==
    /\ NoFeeCall
    /\ \E raw \in RawBooks :
          /\ Len(raw_get(raw, "yes")) + Len(raw_get(raw, "no")) <= MaxLevels
          /\ heap = NewHeap(raw)
          /\ ob = OrderBook("T", raw)
    /\ snapshot = None
    /\ pc = "constructed"
    /\ ret = None

\* faulty variant: get_vwap sorts the book's own list (levels.sort(...))
GetVwapSortingInPlace ==
    /\ ret = None
    /\ \E side \in Sides, quantity \in 0 .. MaxQuantity :
          /\ ret' = [ op |-> "get_vwap", side |-> side, quantity |-> quantity,
                      val |-> get_vwap(ob, heap, side, quantity) ]
          /\ ob' = [ob EXCEPT ![IF side = "bid" THEN "yes_bids" ELSE "yes_asks"]
                                 = vwap_levels(ob, heap, side)]
    /\ UNCHANGED <<fee_vars, heap, snapshot, pc>>

GetVwap ==
    /\ ret = None
    /\ \E side \in Sides, quantity \in 0 .. MaxQuantity :
          ret' = [ op |-> "get_vwap", side |-> side, quantity |-> quantity,
                   val |-> get_vwap(ob, heap, side, quantity) ]
    /\ UNCHANGED <<fee_vars, heap, ob, snapshot, pc>>

GetCumulativeDepth ==
    /\ ret = None
    /\ \E side \in Sides, levels \in 0 .. MaxLevels :
          ret' = [ op |-> "get_cumulative_depth", side |-> side,
                   levels |-> levels,
                   val |-> get_cumulative_depth(ob, heap, side, levels) ]
    /\ UNCHANGED <<fee_vars, heap, ob, snapshot, pc>>

GetDepthAtPrice ==
    /\ ret = None
    /\ \E side \in Sides, price \in BookPrices :
          ret' = [ op |-> "get_depth_at_price", side |-> side, price |-> price,
                   val |-> get_depth_at_price(ob, heap, price, side) ]
    /\ UNCHANGED <<fee_vars, heap, ob, snapshot, pc>>

IsCrossed ==
    /\ ret = None
    /\ ret' = [ op |-> "is_crossed", val |-> is_crossed(ob) ]
    /\ UNCHANGED <<fee_vars, heap, ob, snapshot, pc>>

IsEmpty ==
    /\ ret = None
    /\ ret' = [ op |-> "is_empty", val |-> is_empty(ob) ]
    /\ UNCHANGED <<fee_vars, heap, ob, snapshot, pc>>

IsOneSided ==
    /\ ret = None
    /\ ret' = [ op |-> "is_one_sided", val |-> is_one_sided(ob) ]
    /\ UNCHANGED <<fee_vars, heap, ob, snapshot, pc>>

GetSnapshot ==
    /\ pc = "constructed"
    /\ ret = None
    /\ snapshot' = get_snapshot(ob)
    /\ pc' = "snapshotted"
    /\ ret' = [ op |-> "get_snapshot" ]
    /\ UNCHANGED <<fee_vars, heap, ob>>

\* the caller's side of a snapshot: snapshot.yes_bids / snapshot.yes_asks
snapshot_field(side) == IF side = "bid" THEN "yes_bids" ELSE "yes_asks"

\* snapshot.yes_bids.append(Quote(price, quantity))
SnapshotAppend ==
    /\ pc = "snapshotted"
    /\ ret = None
    /\ \E side \in Sides, price \in BookPrices :
          /\ heap' = Append(heap, Quote(price, 2))
          /\ snapshot' = [snapshot EXCEPT
                            ![snapshot_field(side)] = Append(@, Len(heap) + 1)]
    /\ pc' = "mutated"
    /\ ret' = None
    /\ UNCHANGED <<fee_vars, ob>>

\* del snapshot.yes_bids[i]
SnapshotRemove ==
    /\ pc = "snapshotted"
    /\ ret = None
    /\ \E side \in Sides :
          \E i \in 1 .. Len(snapshot[snapshot_field(side)]) :
              snapshot' = [snapshot EXCEPT ![snapshot_field(side)] =
                              SubSeq(@, 1, i - 1) \o SubSeq(@, i + 1, Len(@))]
    /\ pc' = "mutated"
    /\ ret' = None
    /\ UNCHANGED <<fee_vars, heap, ob>>

\* snapshot.yes_bids[i].price = price
SnapshotSetPrice ==
    /\ pc = "snapshotted"
    /\ ret = None
    /\ \E side \in Sides :
          \E i \in 1 .. Len(snapshot[snapshot_field(side)]) :
              \E price \in BookPrices :
                  /\ price # heap[snapshot[snapshot_field(side)][i]].price
                  /\ heap' = [heap EXCEPT
                        ![snapshot[snapshot_field(side)][i]].price = price]
    /\ pc' = "mutated"
    /\ ret' = None
    /\ UNCHANGED <<fee_vars, ob, snapshot>>

\* snapshot.yes_bids[i].quantity = quantity
SnapshotSetQuantity ==
    /\ pc = "snapshotted"
    /\ ret = None
    /\ \E side \in Sides :
          \E i \in 1 .. Len(snapshot[snapshot_field(side)]) :
              \E quantity \in BookQuantities :
                  /\ quantity # heap[snapshot[snapshot_field(side)][i]].quantity
                  /\ heap' = [heap EXCEPT
                        ![snapshot[snapshot_field(side)][i]].quantity = quantity]
    /\ pc' = "mutated"
    /\ ret' = None
    /\ UNCHANGED <<fee_vars, ob, snapshot>>

\* the caller takes the value returned; the next call can be made
Return ==
    /\ ret # None
    /\ ret' = None
    /\ UNCHANGED <<fee_vars, heap, ob, snapshot, pc>>

\* the book and the calls of its methods
Next ==
    \/ GetVwap
    \/ GetCumulativeDepth
    \/ GetDepthAtPrice
    \/ IsCrossed
    \/ IsEmpty
    \/ IsOneSided
    \/ GetSnapshot
    \/ Return

Spec == Init /\ [][Next]_vars

\* the same with a caller that also writes to the snapshot it was handed
SnapshotNext ==
    \/ Next
    \/ SnapshotAppend
    \/ SnapshotRemove
    \/ SnapshotSetPrice
    \/ SnapshotSetQuantity

SnapshotSpec == Init /\ [][SnapshotNext]_vars

(***************************************************************************)
(* Claims about orderbook.py, checked under Spec                           *)
(***************************************************************************)
IsRet(op) == ret # None /\ ret.op = op

\* the levels a list of Quote ids holds now
Contents(ids) == [i \in 1 .. Len(ids) |-> heap[ids[i]]]

RECURSIVE SumSeq(_)
SumSeq(s) == IF s = <<>> THEN 0 ELSE Head(s) + SumSeq(Tail(s))

\* the caller has not written to a level it reached through a snapshot
Unaltered == pc \in {"constructed", "snapshotted"}

\* C6: the derived YES-ask sequence is the stable ascending-by-price sort of
\* the parsed NO-bid levels (X, Q), in input order, mapped to (100 - X, Q):
\* same number of levels, every quantity preserved, equal prices in input
\* order, lowest ask first.
C6_AsksAreStableSortOfNoBids ==
    Unaltered =>
        LET wellformed == SelectSeq(raw_get(ob.raw, "no"), LAMBDA b : Len(b) >= 2)
            no     == Contents(ob.no_bids)
            mapped == [i \in 1 .. Len(no) |->
                          [price |-> 100 - no[i].price, quantity |-> no[i].quantity]]
            asks   == Contents(ob.yes_asks)
        IN  /\ no = [i \in 1 .. Len(wellformed) |->
                        [price |-> wellformed[i][1], quantity |-> wellformed[i][2]]]
            /\ Len(asks) = Len(mapped)
            /\ \A i, j \in 1 .. Len(asks) : i < j => asks[i].price <= asks[j].price
            /\ \A p \in 0 .. PRICE_RANGE :
                  SelectSeq(asks, LAMBDA a : a.price = p)
                    = SelectSeq(mapped, LAMBDA a : a.price = p)

\* C6 witness: two NO bids whose asks come out in the reverse of input order
C6_Witness ==
    /\ Unaltered
    /\ Len(ob.no_bids) = 2
    /\ heap[ob.no_bids[1]].price < heap[ob.no_bids[2]].price
    /\ heap[ob.yes_asks[1]].quantity = heap[ob.no_bids[2]].quantity
    /\ heap[ob.yes_asks[1]].quantity # heap[ob.no_bids[1]].quantity

\* C7: best_bid is the maximum YES-bid price, absent exactly when there are no
\* YES bids; best_ask is the minimum ask price, absent exactly when there are
\* no asks; mid_price and spread are present exactly when both are, with
\* spread = best_ask - best_bid and mid_price = (best_bid + best_ask) / 2; an
\* absent metric is None, never a number.
C7_Metrics ==
    Unaltered =>
        LET bids == Contents(ob.yes_bids)
            asks == Contents(ob.yes_asks)
        IN  /\ (ob.best_bid = None) <=> (bids = <<>>)
            /\ bids # <<>> =>
                  /\ ob.best_bid.kind = "Some"
                  /\ \E i \in 1 .. Len(bids) : bids[i].price = ob.best_bid.val
                  /\ \A i \in 1 .. Len(bids) : bids[i].price <= ob.best_bid.val
            /\ (ob.best_ask = None) <=> (asks = <<>>)
            /\ asks # <<>> =>
                  /\ ob.best_ask.kind = "Some"
                  /\ \E i \in 1 .. Len(asks) : asks[i].price = ob.best_ask.val
                  /\ \A i \in 1 .. Len(asks) : asks[i].price >= ob.best_ask.val
            /\ (ob.mid_price # None) <=> (bids # <<>> /\ asks # <<>>)
            /\ (ob.spread # None) <=> (bids # <<>> /\ asks # <<>>)
            /\ (bids # <<>> /\ asks # <<>>) =>
                  /\ ob.spread = Some(ob.best_ask.val - ob.best_bid.val)
                  /\ ob.mid_price.kind = "float"
                  /\ ob.mid_price.num = ob.best_bid.val + ob.best_ask.val
                  /\ ob.mid_price.den = 2

\* C7 witness: a one-sided book, whose best_bid is present while best_ask,
\* mid_price and spread are absent
C7_Witness ==
    /\ Unaltered
    /\ Len(ob.yes_bids) = 2
    /\ ob.yes_asks = <<>>
    /\ ob.best_bid # None
    /\ ob.mid_price = None

\* the quantity on a side at prices strictly better than p, and at p
BetterThan(side, p, q) == IF side = "bid" THEN q > p ELSE q < p

QuantityBetter(levels, side, p) ==
    SumSeq([i \in 1 .. Len(levels) |->
              IF BetterThan(side, p, levels[i].price) THEN levels[i].quantity ELSE 0])

QuantityAt(levels, p) ==
    SumSeq([i \in 1 .. Len(levels) |->
              IF levels[i].price = p THEN levels[i].quantity ELSE 0])

QuantityOf(levels) == SumSeq([i \in 1 .. Len(levels) |-> levels[i].quantity])

\* what filling q best-first costs: at each price, what is left to fill after
\* the better prices, up to the quantity resting there
BestFirstValue(levels, side, q) ==
    SumSeq([k \in 1 .. (PRICE_RANGE + 1) |->
              (k - 1) * Min2(QuantityAt(levels, k - 1),
                             Max2(0, q - QuantityBetter(levels, side, k - 1)))])

BestPrice(levels, side) ==
    CHOOSE p \in { levels[i].price : i \in 1 .. Len(levels) } :
        \A i \in 1 .. Len(levels) : ~BetterThan(side, p, levels[i].price)

\* C8: for a quantity q >= 1 not above the side's total quantity, get_vwap
\* returns (sum of price x taken) / q with the levels consumed best-first;
\* when q is at most the quantity resting at the best price, that is the
\* best price exactly.
C8_VwapIsBestFirstAverage ==
    IsRet("get_vwap") =>
        LET levels == Contents(side_levels(ob, ret.side))
        IN  (ret.quantity >= 1 /\ ret.quantity <= QuantityOf(levels)) =>
              /\ ret.val = Float(BestFirstValue(levels, ret.side, ret.quantity),
                                 ret.quantity)
              /\ ret.quantity <= QuantityAt(levels, BestPrice(levels, ret.side))
                    => ret.val.num = BestPrice(levels, ret.side) * ret.val.den

\* C8 witness: a bid fill that takes all of the best level and part of the next
C8_Witness ==
    /\ IsRet("get_vwap")
    /\ ret.side = "bid"
    /\ ret.quantity >= 1
    /\ ret.val # None
    /\ ret.val.kind = "float"
    /\ LET levels == Contents(ob.yes_bids)
       IN  /\ ret.quantity > QuantityAt(levels, BestPrice(levels, "bid"))
           /\ ret.quantity < QuantityOf(levels)

\* C9: for every quantity q >= 0 get_vwap completes without raising and
\* returns a price or None; it returns None whenever the side's total
\* quantity is less than q, and never an average over a partial fill.
C9_VwapNeverRaisesNoPartialFill ==
    (IsRet("get_vwap") /\ ret.quantity >= 0) =>
        LET levels == Contents(side_levels(ob, ret.side))
        IN  /\ ret.val.kind \in {"None", "float"}
            /\ QuantityOf(levels) < ret.quantity => ret.val = None
            /\ ret.val.kind = "float" => ret.val.den = ret.quantity

\* everything a caller can observe of the book: its levels, its metrics and
\* the results of its queries
BookView ==
    [ yes_bids  |-> Contents(ob.yes_bids),
      yes_asks  |-> Contents(ob.yes_asks),
      metrics   |-> <<ob.best_bid, ob.best_ask, ob.mid_price, ob.spread,
                      ob.bid_depth, ob.ask_depth>>,
      get_vwap  |-> [side \in Sides, q \in 0 .. MaxQuantity |->
                        get_vwap(ob, heap, side, q)],
      get_cumulative_depth |->
                    [side \in Sides, n \in 0 .. MaxLevels |->
                        get_cumulative_depth(ob, heap, side, n)],
      get_depth_at_price |->
                    [side \in Sides, p \in BookPrices |->
                        get_depth_at_price(ob, heap, p, side)],
      get_snapshot |-> [ yes_bids |-> Contents(get_snapshot(ob).yes_bids),
                         yes_asks |-> Contents(get_snapshot(ob).yes_asks) ] ]

\* C10: the snapshot is a deep, independent copy: after the caller appends or
\* removes a level in the snapshot's lists, or changes the price or quantity
\* of a level reached through the snapshot, the book's levels, metrics and
\* query results are what they were.
C10_SnapshotIsIndependentCopy ==
    [][(pc = "snapshotted" /\ pc' = "mutated") => BookView' = BookView]_vars

Rank(levels, side, i) ==
    Cardinality({ j \in 1 .. Len(levels) :
                    \/ BetterThan(side, levels[i].price, levels[j].price)
                    \/ levels[j].price = levels[i].price /\ j < i })

FirstLevelsDepth(levels, side, n) ==
    SumSeq([i \in 1 .. Len(levels) |->
              IF Rank(levels, side, i) < n THEN levels[i].quantity ELSE 0])

TotalDepth(side) == IF side = "bid" THEN ob.bid_depth ELSE ob.ask_depth

\* C19: for n_levels >= 0, get_cumulative_depth returns the sum of the
\* quantities of the first n_levels entries of the side ordered best-first
\* (one entry per raw level, duplicates of a price included); it is 0 for an
\* empty side or n_levels = 0, does not decrease as n_levels grows, and for
\* n_levels >= the number of levels is the side's total depth (bid_depth or
\* ask_depth on a book as constructed).
C19_CumulativeDepthOfBestLevels ==
    (IsRet("get_cumulative_depth") /\ ret.levels >= 0) =>
        LET levels == Contents(side_levels(ob, ret.side))
        IN  /\ ret.val = FirstLevelsDepth(levels, ret.side, ret.levels)
            /\ (levels = <<>> \/ ret.levels = 0) => ret.val = 0
            /\ ret.val <= get_cumulative_depth(ob, heap, ret.side,
                                               ret.levels + 1)
            /\ ret.levels >= Len(levels) =>
                  /\ ret.val = QuantityOf(levels)
                  /\ Unaltered => ret.val = TotalDepth(ret.side)

\* C19 witness: the one best level of two is asked for, and it is not the
\* level the raw snapshot lists first
C19_Witness ==
    /\ IsRet("get_cumulative_depth")
    /\ ret.side = "bid"
    /\ ret.levels = 1
    /\ Len(ob.yes_bids) = 2
    /\ heap[ob.yes_bids[1]].price < heap[ob.yes_bids[2]].price
    /\ heap[ob.yes_bids[1]].quantity # heap[ob.yes_bids[2]].quantity
    /\ ret.val = heap[ob.yes_bids[2]].quantity

\* C20: get_depth_at_price returns the sum of the quantities of all the
\* levels of the side whose price is the given price (levels of the same
\* price all counted), 0 when there is none; summed over the prices 0..100 it
\* is the side's total depth (bid_depth or ask_depth on a book as constructed).
C20_DepthAtPriceSumsDuplicates ==
    IsRet("get_depth_at_price") =>
        LET levels == Contents(side_levels(ob, ret.side))
            over_all_prices ==
                SumSeq([k \in 1 .. (PRICE_RANGE + 1) |->
                          get_depth_at_price(ob, heap, k - 1, ret.side)])
        IN  /\ ret.val = QuantityAt(levels, ret.price)
            /\ (\A i \in 1 .. Len(levels) : levels[i].price # ret.price)
                  => ret.val = 0
            /\ over_all_prices = QuantityOf(levels)
            /\ Unaltered => over_all_prices = TotalDepth(ret.side)

\* C20 witness: two levels rest at the price asked for and both are counted
C20_Witness ==
    /\ IsRet("get_depth_at_price")
    /\ LET levels == Contents(side_levels(ob, ret.side))
       IN  /\ Len(levels) = 2
           /\ levels[1].price = ret.price
           /\ levels[2].price = ret.price
           /\ levels[1].quantity > 0
           /\ levels[2].quantity > 0
           /\ ret.val = levels[1].quantity + levels[2].quantity

\* C21: exactly one of three cases holds of a book: is_empty() (no level on
\* either side), is_one_sided() (levels on exactly one side), or levels on
\* both sides; is_empty and is_one_sided are never both TRUE; an empty or
\* one-sided book has no mid_price and no spread and is not crossed, and a
\* book that is neither has both.
C21_EmptyOneSidedOrTwoSided ==
    LET bids     == Len(ob.yes_bids) > 0
        asks     == Len(ob.yes_asks) > 0
        neither  == ~is_empty(ob) /\ ~is_one_sided(ob)
    IN  /\ IsRet("is_empty") => ret.val = (~bids /\ ~asks)
        /\ IsRet("is_one_sided") => ret.val = ((bids /\ ~asks) \/ (~bids /\ asks))
        /\ (IsRet("is_empty") /\ ret.val) => ~is_one_sided(ob)
        /\ (IsRet("is_one_sided") /\ ret.val) => ~is_empty(ob)
        /\ neither = (bids /\ asks)
        /\ ((IsRet("is_empty") \/ IsRet("is_one_sided")) /\ ret.val) =>
              /\ ob.mid_price = None
              /\ ob.spread = None
              /\ is_crossed(ob) = FALSE
        /\ (IsRet("is_crossed") /\ ret.val) => neither
        /\ neither => (ob.mid_price # None /\ ob.spread # None)

\* C21 witness: a book with asks only is reported one-sided
C21_Witness ==
    /\ IsRet("is_one_sided")
    /\ ret.val = TRUE
    /\ Len(ob.yes_bids) = 0
    /\ Len(ob.yes_asks) > 0
    /\ ob.best_ask # None
    /\ ob.mid_price = None

\* the raw pairs of a list that have at least two fields, and the place the
\* i-th raw pair takes among them
WellFormed(raw_list) == { i \in 1 .. Len(raw_list) : Len(raw_list[i]) >= 2 }

Position(raw_list, i) == Cardinality({ j \in WellFormed(raw_list) : j <= i })

ParsedAs(levels, raw_list) ==
    /\ Len(levels) = Cardinality(WellFormed(raw_list))
    /\ Unaltered =>
          \A i \in WellFormed(raw_list) :
              heap[levels[Position(raw_list, i)]]
                 = [price |-> raw_list[i][1], quantity |-> raw_list[i][2]]

ResultOf(r, o, h) ==
    CASE r.op = "get_vwap" -> get_vwap(o, h, r.side, r.quantity)
      [] r.op = "get_cumulative_depth" ->
             get_cumulative_depth(o, h, r.side, r.levels)
      [] r.op = "get_depth_at_price" -> get_depth_at_price(o, h, r.price, r.side)
      [] r.op = "is_crossed" -> is_crossed(o)
      [] r.op = "is_empty" -> is_empty(o)
      [] r.op = "is_one_sided" -> is_one_sided(o)

\* C23: a call of get_snapshot, get_vwap, get_cumulative_depth,
\* get_depth_at_price, is_crossed, is_empty or is_one_sided, with any
\* arguments and after any calls before it, leaves the book's ticker,
\* yes_bids and yes_asks (contents and order), best_bid, best_ask, mid_price,
\* spread, bid_depth and ask_depth unchanged, and every call repeated with
\* the same arguments returns what it returned before.
C23_QueriesLeaveBookUnchanged ==
    [][ (ret = None /\ ret' # None) =>
            /\ ob'.ticker = ob.ticker
            /\ Contents(ob.yes_bids)' = Contents(ob.yes_bids)
            /\ Contents(ob.yes_asks)' = Contents(ob.yes_asks)
            /\ ob' = ob
            /\ heap' = heap
            /\ ret'.op # "get_snapshot" =>
                  /\ ret'.val = ResultOf(ret', ob, heap)
                  /\ ResultOf(ret', ob', heap') = ResultOf(ret', ob, heap) ]_vars

\* C23 witness: a query answered after a snapshot was taken, on a book whose
\* bids the raw snapshot lists worst first
C23_Witness ==
    /\ pc = "snapshotted"
    /\ IsRet("get_vwap")
    /\ ret.side = "bid"
    /\ ret.val.kind = "float"
    /\ Len(ob.yes_bids) = 2
    /\ heap[ob.yes_bids[1]].price < heap[ob.yes_bids[2]].price

(***************************************************************************)
(* The caller of fees.py.  The position size, the mid price and the fee    *)
(* regime are drawn at the start; one function is then applied to them,    *)
(* with its remaining arguments drawn at the call.                         *)
(***************************************************************************)
ContractsSet == -1 .. MaxContracts
MidSet       == 0 .. PRICE_RANGE
SpreadSet    == -MaxSpread .. MaxSpread
\* the position sizes calculate_fee is asked about: those above and the 100
\* contracts of its documented examples
FeeContractsSet == ContractsSet \cup {EXAMPLE_CONTRACTS}
TargetSet    == { t * MICRO : t \in (-1 .. MaxTarget) \cup {EXAMPLE_TARGET} }

FeeInit ==
    /\ contracts \in ContractsSet
    /\ mid_price_cents \in MidSet
    /\ as_maker \in BOOLEAN
    /\ call = None
    /\ result = None
    /\ NoBook

CallShouldQuoteMarket ==
    /\ call = None
    /\ \E s \in SpreadSet, t \in TargetSet :
          /\ call' = [ op |-> "should_quote_market", spread_cents |-> s,
                       min_profit_cents |-> t ]
          /\ result' = should_quote_market(s, contracts, mid_price_cents, t,
                                           as_maker)
    /\ UNCHANGED <<contracts, mid_price_cents, as_maker, book_vars>>

CallMinSpreadForBreakeven ==
    /\ call = None
    /\ call' = [ op |-> "min_spread_for_breakeven" ]
    /\ result' = min_spread_for_breakeven(contracts, mid_price_cents, as_maker)
    /\ UNCHANGED <<contracts, mid_price_cents, as_maker, book_vars>>

CallMinSpreadForProfit ==
    /\ call = None
    /\ \E t \in TargetSet :
          /\ call' = [ op |-> "min_spread_for_profit", target_profit_cents |-> t ]
          /\ result' = min_spread_for_profit(contracts, mid_price_cents, t,
                                             as_maker)
    /\ UNCHANGED <<contracts, mid_price_cents, as_maker, book_vars>>

\* calculate_fee(contracts, price_cents, fee_rate), the price being the mid
\* price and the rate one of the two rates of the module
CallCalculateFee ==
    /\ call = None
    /\ \E c \in FeeContractsSet :
          /\ call' = [ op |-> "calculate_fee", contracts |-> c,
                       price_cents |-> mid_price_cents,
                       fee_rate |-> FeeRate(as_maker) ]
          /\ result' = calculate_fee(c, mid_price_cents, FeeRate(as_maker))
    /\ UNCHANGED <<contracts, mid_price_cents, as_maker, book_vars>>

\* calculate_round_trip_fee(contracts, entry, exit, as_maker): entry at the
\* mid price, exit `s` cents from it
CallCalculateRoundTripFee ==
    /\ call = None
    /\ \E s \in SpreadSet :
          /\ call' = [ op |-> "calculate_round_trip_fee",
                       entry_price_cents |-> mid_price_cents,
                       exit_price_cents |-> mid_price_cents + s ]
          /\ result' = calculate_round_trip_fee(contracts, mid_price_cents,
                                                mid_price_cents + s, as_maker)
    /\ UNCHANGED <<contracts, mid_price_cents, as_maker, book_vars>>

CallAnalyzeProfitability ==
    /\ call = None
    /\ \E s \in SpreadSet :
          /\ call' = [ op |-> "analyze_profitability",
                       entry_price_cents |-> mid_price_cents,
                       exit_price_cents |-> mid_price_cents + s ]
          /\ result' = analyze_profitability(contracts, mid_price_cents,
                                             mid_price_cents + s, as_maker)
    /\ UNCHANGED <<contracts, mid_price_cents, as_maker, book_vars>>

CallExpectedProfitPerRoundTrip ==
    /\ call = None
    /\ \E s \in SpreadSet :
          /\ call' = [ op |-> "expected_profit_per_round_trip",
                       spread_cents |-> s ]
          /\ result' = expected_profit_per_round_trip(s, contracts,
                                                      mid_price_cents, as_maker)
    /\ UNCHANGED <<contracts, mid_price_cents, as_maker, book_vars>>

FeeNext ==
    \/ CallShouldQuoteMarket
    \/ CallMinSpreadForBreakeven
    \/ CallMinSpreadForProfit
    \/ CallCalculateFee
    \/ CallCalculateRoundTripFee
    \/ CallAnalyzeProfitability
    \/ CallExpectedProfitPerRoundTrip

FeeSpec == FeeInit /\ [][FeeNext]_vars

(***************************************************************************)
(* Claims about fees.py, checked under FeeSpec                             *)
(***************************************************************************)
IsCall(op) == call # None /\ call.op = op

\* C1: should_quote_market answers should_quote = TRUE exactly when the net
\* profit of the round trip bought at recommended_bid and sold at
\* recommended_ask (same contracts, same fee regime) is >= min_profit_cents,
\* and the analysis returned is the analysis of exactly those prices.
C1_ShouldQuoteIffNetAtRecommended ==
    IsCall("should_quote_market") =>
        LET a == analyze_profitability(contracts, result.recommended_bid,
                                       result.recommended_ask, as_maker)
        IN  /\ result.should_quote
                  = (a.net_profit_ucents >= call.min_profit_cents)
            /\ result.analysis = a

\* C1 witness: a quote decided on a clamped price (the unclamped ask is above 99)
C1_Witness ==
    /\ IsCall("should_quote_market")
    /\ result.should_quote
    /\ contracts >= 1
    /\ mid_price_cents + (call.spread_cents \div 2) > MAX_PRICE
    /\ result.recommended_ask = MAX_PRICE

\* C2: for mid_price_cents in 0..100, spread_cents in -100..100 and
\* contracts >= 0, recommended_bid and recommended_ask are both in 1..99.
C2_RecommendedPricesInRange ==
    ( /\ IsCall("should_quote_market")
      /\ contracts >= 0
      /\ mid_price_cents \in 0 .. PRICE_RANGE
      /\ call.spread_cents \in -PRICE_RANGE .. PRICE_RANGE )
    => /\ result.recommended_bid \in MIN_PRICE .. MAX_PRICE
       /\ result.recommended_ask \in MIN_PRICE .. MAX_PRICE

\* C3 as stated: whenever should_quote is TRUE for contracts >= 0, mid in
\* 1..99, spread >= 0 and min_profit >= 0, recommended_bid < recommended_ask.
C3_QuoteIsTwoSided_Original ==
    ( /\ IsCall("should_quote_market")
      /\ result.should_quote
      /\ contracts >= 0
      /\ mid_price_cents \in MIN_PRICE .. MAX_PRICE
      /\ call.spread_cents >= 0
      /\ call.min_profit_cents >= 0 )
    => result.recommended_bid < result.recommended_ask

\* C3 amended: the same with contracts >= 1 (a position of at least one
\* contract): then should_quote = TRUE implies recommended_bid < recommended_ask.
C3_QuoteIsTwoSided ==
    ( /\ IsCall("should_quote_market")
      /\ result.should_quote
      /\ contracts >= 1
      /\ mid_price_cents \in MIN_PRICE .. MAX_PRICE
      /\ call.spread_cents >= 0
      /\ call.min_profit_cents >= 0 )
    => result.recommended_bid < result.recommended_ask

\* C3 witness: a quote is recommended for a real position and a positive target
C3_Witness ==
    /\ IsCall("should_quote_market")
    /\ result.should_quote
    /\ contracts >= 1
    /\ mid_price_cents \in MIN_PRICE .. MAX_PRICE
    /\ call.spread_cents >= 0
    /\ call.min_profit_cents > 0
    /\ result.recommended_bid < result.recommended_ask

\* a candidate spread whose quotes are valid prices
ValidSpread(s, mid) ==
    /\ mid - (s \div 2) >= MIN_PRICE
    /\ mid + (s \div 2) <= MAX_PRICE

BreakevenQualifies(s) ==
    /\ ValidSpread(s, mid_price_cents)
    /\ analyze_profitability(contracts, mid_price_cents - (s \div 2),
            mid_price_cents + (s \div 2), as_maker).is_profitable

ProfitQualifies(s) ==
    /\ ValidSpread(s, mid_price_cents)
    /\ analyze_profitability(contracts, mid_price_cents - (s \div 2),
            mid_price_cents + (s \div 2), as_maker).net_profit_ucents
          >= call.target_profit_cents

\* C4: min_spread_for_breakeven and min_spread_for_profit return the least
\* spread s in 1..49 whose quotes mid - s div 2, mid + s div 2 are within
\* 1..99 and satisfy the condition (is_profitable, resp. net profit >= target);
\* they return 50 exactly when no s in 1..49 qualifies.
C4_LeastQualifyingSpread ==
    /\ IsCall("min_spread_for_breakeven") =>
          /\ result \in 1 .. SEARCH_END
          /\ result < SEARCH_END => BreakevenQualifies(result)
          /\ \A s \in 1 .. (result - 1) : ~BreakevenQualifies(s)
          /\ (result = SEARCH_END)
                <=> (\A s \in 1 .. (SEARCH_END - 1) : ~BreakevenQualifies(s))
    /\ IsCall("min_spread_for_profit") =>
          /\ result \in 1 .. SEARCH_END
          /\ result < SEARCH_END => ProfitQualifies(result)
          /\ \A s \in 1 .. (result - 1) : ~ProfitQualifies(s)
          /\ (result = SEARCH_END)
                <=> (\A s \in 1 .. (SEARCH_END - 1) : ~ProfitQualifies(s))

\* C4 witness: the search passed over narrower valid spreads that miss the
\* target and stopped before the fallback
C4_Witness ==
    /\ IsCall("min_spread_for_profit")
    /\ result > 2
    /\ result < SEARCH_END
    /\ ValidSpread(2, mid_price_cents)
    /\ ~ProfitQualifies(2)

\* C5 as stated: for contracts >= 1, mid in 1..99 and target >= 0, the
\* spread s returned by min_spread_for_profit achieves the target:
\* analyze_profitability(contracts, mid - s div 2, mid + s div 2).net >= target.
C5_ReturnedSpreadAchievesTarget_Original ==
    ( /\ IsCall("min_spread_for_profit")
      /\ contracts >= 1
      /\ mid_price_cents \in MIN_PRICE .. MAX_PRICE
      /\ call.target_profit_cents >= 0 )
    => analyze_profitability(contracts, mid_price_cents - (result \div 2),
           mid_price_cents + (result \div 2), as_maker).net_profit_ucents
         >= call.target_profit_cents

\* C5 amended: the same whenever the returned spread is below 50, that is
\* whenever the search found a spread and did not fall back.
C5_ReturnedSpreadAchievesTarget ==
    ( /\ IsCall("min_spread_for_profit")
      /\ contracts >= 1
      /\ mid_price_cents \in MIN_PRICE .. MAX_PRICE
      /\ call.target_profit_cents >= 0
      /\ result < SEARCH_END )
    => analyze_profitability(contracts, mid_price_cents - (result \div 2),
           mid_price_cents + (result \div 2), as_maker).net_profit_ucents
         >= call.target_profit_cents

\* C5 witness: a positive target reached by a spread wider than the breakeven one
C5_Witness ==
    /\ IsCall("min_spread_for_profit")
    /\ contracts >= 1
    /\ mid_price_cents \in MIN_PRICE .. MAX_PRICE
    /\ call.target_profit_cents > 0
    /\ result < SEARCH_END
    /\ result > min_spread_for_breakeven(contracts, mid_price_cents, as_maker)

C14_TakerIsFourTimesMaker ==
    /\ IsCall("calculate_fee") =>
          /\ calculate_taker_fee(call.contracts, call.price_cents).fee_ucents
                = 4 * calculate_maker_fee(call.contracts,
                                          call.price_cents).fee_ucents
          /\ call.fee_rate = TAKER_FEE_RATE =>
                result = calculate_taker_fee(call.contracts, call.price_cents)
          /\ call.fee_rate = MAKER_FEE_RATE =>
                result = calculate_maker_fee(call.contracts, call.price_cents)
    /\ IsCall("calculate_round_trip_fee") =>
          /\ calculate_round_trip_fee(contracts, call.entry_price_cents,
                                      call.exit_price_cents, FALSE)
                = 4 * calculate_round_trip_fee(contracts, call.entry_price_cents,
                                               call.exit_price_cents, TRUE)
          /\ ~as_maker =>
                result = 4 * ( calculate_maker_fee(contracts,
                                   call.entry_price_cents).fee_ucents
                               + calculate_maker_fee(contracts,
                                   call.exit_price_cents).fee_ucents )

\* C14 witness: a round trip of a real position charged as taker
C14_Witness ==
    /\ IsCall("calculate_round_trip_fee")
    /\ ~as_maker
    /\ contracts >= 1
    /\ call.entry_price_cents \in MIN_PRICE .. MAX_PRICE
    /\ call.exit_price_cents \in MIN_PRICE .. MAX_PRICE
    /\ result > 0

\* C15: max-at-mid: for contracts >= 0, either rate and every price p in
\* 1..99 the fee at 50 is at least the fee at p, and for contracts >= 1 the
\* fee strictly decreases as p moves away from 50 in either direction.
C15_FeeMaxAtMid ==
    ( /\ IsCall("calculate_fee")
      /\ call.contracts >= 0
      /\ call.price_cents \in MIN_PRICE .. MAX_PRICE )
    => LET fee(p) == calculate_fee(call.contracts, p, call.fee_rate).fee_ucents
       IN  /\ fee(50) >= result.fee_ucents
           /\ call.contracts >= 1 =>
                 /\ call.price_cents < 50 =>
                       result.fee_ucents < fee(call.price_cents + 1)
                 /\ call.price_cents > 50 =>
                       result.fee_ucents < fee(call.price_cents - 1)
                 /\ call.price_cents # 50 => result.fee_ucents < fee(50)

\* C15 witness: the fee at an extreme price, well below the fee at the mid
C15_Witness ==
    /\ IsCall("calculate_fee")
    /\ call.contracts >= 1
    /\ call.price_cents = MAX_PRICE
    /\ result.fee_ucents > 0
    /\ 2 * result.fee_ucents
          < calculate_fee(call.contracts, 50, call.fee_rate).fee_ucents

\* C16: analyze_profitability returns spread_cents = exit - entry,
\* gross_profit_cents = spread_cents x contracts, total_fees_cents = the fee at
\* the entry price plus the fee at the exit price at the selected rate, which
\* is what calculate_round_trip_fee returns for the same arguments,
\* net_profit_cents = gross_profit_cents - total_fees_cents, and
\* is_profitable = TRUE exactly when net_profit_cents > 0.
C16_ProfitabilityBreakdown ==
    IsCall("analyze_profitability") =>
        LET entry == call.entry_price_cents
            exit  == call.exit_price_cents
            rate  == IF as_maker THEN MAKER_FEE_RATE ELSE TAKER_FEE_RATE
        IN  /\ result.contracts = contracts
            /\ result.entry_price_cents = entry
            /\ result.exit_price_cents = exit
            /\ result.spread_cents = exit - entry
            /\ result.gross_profit_ucents = result.spread_cents * contracts * MICRO
            /\ result.total_fees_ucents
                  = rate * contracts * entry * (CENTS_PER_DOLLAR - entry)
                      + rate * contracts * exit * (CENTS_PER_DOLLAR - exit)
            /\ result.total_fees_ucents
                  = result.entry_fee.fee_ucents + result.exit_fee.fee_ucents
            /\ result.total_fees_ucents
                  = calculate_round_trip_fee(contracts, entry, exit, as_maker)
            /\ result.net_profit_ucents
                  = result.gross_profit_ucents - result.total_fees_ucents
            /\ result.is_profitable = (result.net_profit_ucents > 0)

\* C16 witness: a profitable round trip of a real position, fees paid on both legs
C16_Witness ==
    /\ IsCall("analyze_profitability")
    /\ contracts >= 1
    /\ result.spread_cents >= 1
    /\ result.entry_fee.fee_ucents > 0
    /\ result.exit_fee.fee_ucents > 0
    /\ result.net_profit_ucents < result.gross_profit_ucents
    /\ result.is_profitable

C18_PerContractAndRoiDefaultOnlyAtZero ==
    IsCall("analyze_profitability") =>
        LET net     == result.net_profit_ucents
            capital == call.entry_price_cents * contracts
        IN  /\ contracts # 0 =>
                  \/ result.profit_per_contract
                        = [num |-> net, den |-> contracts * MICRO]
                  \/ net = 0 /\ result.profit_per_contract.num = 0
            /\ contracts = 0 => result.profit_per_contract.num = 0
            /\ capital # 0 =>
                  \/ result.roi_percent
                        = [num |-> net,
                           den |-> capital * (MICRO \div CENTS_PER_DOLLAR)]
                  \/ net = 0 /\ result.roi_percent.num = 0
            /\ capital = 0 => result.roi_percent.num = 0

\* C24: for contracts >= 1 and mid_price_cents in 1..99,
\* min_spread_for_breakeven as maker returns a spread between 1 and 3; the
\* fallback 50 is never returned.
C24_MakerBreakevenSpreadSmall ==
    ( /\ IsCall("min_spread_for_breakeven")
      /\ contracts >= 1
      /\ mid_price_cents \in MIN_PRICE .. MAX_PRICE
      /\ as_maker )
    => /\ result \in 1 .. 3
       /\ result # SEARCH_END

\* C25 as stated: for contracts >= 0, mid_price_cents in 1..99 and a target
\* >= 0, min_spread_for_breakeven <= min_spread_for_profit, and in every
\* should_quote_market record breakeven_spread <= min_profitable_spread.
C25_BreakevenNotAboveTarget_Original ==
    /\ ( /\ IsCall("min_spread_for_profit")
         /\ contracts >= 0
         /\ mid_price_cents \in MIN_PRICE .. MAX_PRICE
         /\ call.target_profit_cents >= 0 )
       => min_spread_for_breakeven(contracts, mid_price_cents, as_maker) <= result
    /\ ( /\ IsCall("should_quote_market")
         /\ contracts >= 0
         /\ mid_price_cents \in MIN_PRICE .. MAX_PRICE
         /\ call.min_profit_cents >= 0 )
       => result.breakeven_spread <= result.min_profitable_spread

\* C25 amended: the same for contracts >= 1.
C25_BreakevenNotAboveTarget ==
    /\ ( /\ IsCall("min_spread_for_profit")
         /\ contracts >= 1
         /\ mid_price_cents \in MIN_PRICE .. MAX_PRICE
         /\ call.target_profit_cents >= 0 )
       => min_spread_for_breakeven(contracts, mid_price_cents, as_maker) <= result
    /\ ( /\ IsCall("should_quote_market")
         /\ contracts >= 1
         /\ mid_price_cents \in MIN_PRICE .. MAX_PRICE
         /\ call.min_profit_cents >= 0 )
       => result.breakeven_spread <= result.min_profitable_spread

\* C25 witness: a decision record whose target needs a spread strictly wider
\* than the breakeven one, both found by the search
C25_Witness ==
    /\ IsCall("should_quote_market")
    /\ contracts >= 1
    /\ mid_price_cents \in MIN_PRICE .. MAX_PRICE
    /\ call.min_profit_cents > 0
    /\ result.breakeven_spread < result.min_profitable_spread
    /\ result.min_profitable_spread < SEARCH_END

\* C26: for contracts >= 0 and mid_price_cents in 1..99 the breakeven spread
\* as taker is never smaller than the breakeven spread as maker.
C26_TakerBreakevenNotBelowMaker ==
    ( /\ IsCall("min_spread_for_breakeven")
      /\ contracts >= 0
      /\ mid_price_cents \in MIN_PRICE .. MAX_PRICE )
    => IF as_maker
       THEN min_spread_for_breakeven(contracts, mid_price_cents, FALSE) >= result
       ELSE result >= min_spread_for_breakeven(contracts, mid_price_cents, TRUE)

\* C26 witness: a taker call whose breakeven spread was found by the search
\* and is strictly wider than the maker one
C26_Witness ==
    /\ IsCall("min_spread_for_breakeven")
    /\ contracts >= 1
    /\ mid_price_cents \in MIN_PRICE .. MAX_PRICE
    /\ ~as_maker
    /\ result < SEARCH_END
    /\ result > min_spread_for_breakeven(contracts, mid_price_cents, TRUE)

\* the position sizes a breakeven spread is compared across
ComparedContracts == (1 .. MaxContracts) \cup {EXAMPLE_CONTRACTS}

\* C27: for contract counts c1, c2 >= 1, mid_price_cents in 1..99 and either
\* fee regime, min_spread_for_breakeven(c1, mid) and
\* min_spread_for_breakeven(c2, mid) differ by at most 1.
C27_BreakevenIndependentOfSize ==
    ( /\ IsCall("min_spread_for_breakeven")
      /\ contracts >= 1
      /\ mid_price_cents \in MIN_PRICE .. MAX_PRICE )
    => \A c2 \in ComparedContracts :
          LET other == min_spread_for_breakeven(c2, mid_price_cents, as_maker)
          IN  /\ result - other <= 1
              /\ other - result <= 1

\* C27 witness: a breakeven spread found by the search for one contract, the
\* same as the one for a hundred contracts
C27_Witness ==
    /\ IsCall("min_spread_for_breakeven")
    /\ contracts = 1
    /\ mid_price_cents \in MIN_PRICE .. MAX_PRICE
    /\ result < SEARCH_END
    /\ result = min_spread_for_breakeven(EXAMPLE_CONTRACTS, mid_price_cents,
                                         as_maker)

\* C28: for contracts >= 1, mid_price_cents in 1..99, spread_cents in 0..98
\* and min_profit_cents >= 0, whenever should_quote is true the
\* min_profitable_spread of the same record is <= spread_cents.
C28_DecisionRecordSelfConsistent ==
    ( /\ IsCall("should_quote_market")
      /\ contracts >= 1
      /\ mid_price_cents \in MIN_PRICE .. MAX_PRICE
      /\ call.spread_cents \in 0 .. (MAX_PRICE - MIN_PRICE)
      /\ call.min_profit_cents >= 0
      /\ result.should_quote )
    => result.min_profitable_spread <= call.spread_cents

\* the widest spread compared with its successor: one below the widest
\* spread between two valid prices
LAST_COMPARED_SPREAD == MAX_PRICE - MIN_PRICE - 1

\* C29: for contracts >= 0 and mid_price_cents in 1..99,
\* expected_profit_per_round_trip(s) <= expected_profit_per_round_trip(s + 1)
\* for every spread s in 0..97, clamped quotes included; hence a spread that
\* reaches a profit level is followed only by spreads that reach it.
C29_NetProfitMonotoneInSpread ==
    ( /\ IsCall("expected_profit_per_round_trip")
      /\ contracts >= 0
      /\ mid_price_cents \in MIN_PRICE .. MAX_PRICE )
    => /\ \A s \in 0 .. LAST_COMPARED_SPREAD :
             expected_profit_per_round_trip(s, contracts, mid_price_cents, as_maker)
               <= expected_profit_per_round_trip(s + 1, contracts,
                                                 mid_price_cents, as_maker)
       /\ call.spread_cents \in 0 .. LAST_COMPARED_SPREAD =>
             \A w \in (call.spread_cents + 1) .. (LAST_COMPARED_SPREAD + 1) :
                result <= expected_profit_per_round_trip(w, contracts,
                                                mid_price_cents, as_maker)

\* C29 witness: the next spread has its bid clamped to 1 and still nets
\* strictly more
C29_Witness ==
    /\ IsCall("expected_profit_per_round_trip")
    /\ contracts >= 1
    /\ mid_price_cents \in MIN_PRICE .. MAX_PRICE
    /\ call.spread_cents \in 0 .. LAST_COMPARED_SPREAD
    /\ mid_price_cents - ((call.spread_cents + 1) \div 2) < MIN_PRICE
    /\ result < expected_profit_per_round_trip(call.spread_cents + 1, contracts,
                                               mid_price_cents, as_maker)

(***************************************************************************)
(* phase3_test.py: the driver builds the book of one market, returns if    *)
(* the book has no mid price, else takes the mid price and the spread off  *)
(* the book and asks should_quote_market about a hundred contracts as      *)
(* maker, for each of its targets in turn.  What it prints in between      *)
(* changes nothing.                                                        *)
(***************************************************************************)
DRIVER_CONTRACTS == 100
DRIVER_DEFAULT_SPREAD == 1
\* targets = [5, 20, 50] of section 5, then the 25 cents of section 6
DriverTargets == <<5, 20, 50, 25>>

FlowPrices == 48 .. 51
FlowRawLevels == { <<p, q>> : p \in FlowPrices, q \in BookQuantities }

\* the raw order books the client hands over: a non-empty dict (an empty one
\* makes the driver return before it builds a book)
FlowRawBooks ==
    UNION { { [yes |-> y, no |-> n] :
                y \in [1 .. ky -> FlowRawLevels],
                n \in SeqsUpTo(FlowRawLevels, MaxLevels - ky) } : ky \in 0 .. MaxLevels }

FlowInit ==
    /\ NoFeeCall
    /\ \E raw \in FlowRawBooks :
          /\ heap = NewHeap(raw)
          /\ ob = OrderBook("T", raw)
    /\ snapshot = None
    /\ pc = "constructed"
    /\ ret = None

\* Python's truth value of ob.mid_price and ob.spread: None and zero are false
Falsy(x) ==
    CASE x.kind = "None"  -> TRUE
      [] x.kind = "Some"  -> x.val = 0
      [] x.kind = "float" -> x.num = 0

\* if not ob.mid_price: return
DriverSkipsOneSided ==
    /\ pc = "constructed"
    /\ Falsy(ob.mid_price)
    /\ pc' = "returned"
    /\ UNCHANGED <<fee_vars, heap, ob, snapshot, ret>>

\* faulty variant: the mid price is rounded up to a whole cent
DriverReadsMarketRoundingUp ==
    /\ pc = "constructed"
    /\ ~Falsy(ob.mid_price)
    /\ mid_price_cents' = (ob.mid_price.num + ob.mid_price.den - 1) \div ob.mid_price.den
    /\ contracts' = DRIVER_CONTRACTS
    /\ pc' = "evaluating"
    /\ UNCHANGED <<as_maker, call, result, heap, ob, snapshot, ret>>

\* mid = int(ob.mid_price); contracts = 100
DriverReadsMarket ==
    /\ pc = "constructed"
    /\ ~Falsy(ob.mid_price)
    /\ mid_price_cents' = ob.mid_price.num \div ob.mid_price.den
    /\ contracts' = DRIVER_CONTRACTS
    /\ pc' = "evaluating"
    /\ UNCHANGED <<as_maker, call, result, heap, ob, snapshot, ret>>

\* current_spread = ob.spread if ob.spread else 1, and the next call of
\* should_quote_market(current_spread, contracts, mid, target, as_maker=True)
DriverShouldQuote ==
    /\ pc = "evaluating"
    /\ LET i == IF call = None THEN 1 ELSE call.iteration + 1
           current_spread == IF Falsy(ob.spread) THEN DRIVER_DEFAULT_SPREAD
                             ELSE ob.spread.val
       IN  /\ i <= Len(DriverTargets)
           /\ call' = [ op |-> "should_quote_market",
                        spread_cents |-> current_spread,
                        min_profit_cents |-> DriverTargets[i] * MICRO,
                        iteration |-> i ]
           /\ result' = should_quote_market(current_spread, contracts,
                             mid_price_cents, DriverTargets[i] * MICRO, TRUE)
    /\ UNCHANGED <<contracts, mid_price_cents, as_maker, book_vars>>

FlowNext ==
    \/ DriverSkipsOneSided
    \/ DriverReadsMarket
    \/ DriverShouldQuote

FlowSpec == FlowInit /\ [][FlowNext]_vars

(***************************************************************************)
(* Claims about the flow from the book to the decision, checked under      *)
(* FlowSpec                                                                *)
(***************************************************************************)
\* C30: for a two-sided book that is not crossed, with best_bid >= 1 and
\* best_ask <= 99, the driver feeds mid = floor(mid_price) and spread =
\* best_ask - best_bid into should_quote_market, and the record has
\* recommended_bid = best_bid and recommended_ask = best_ask or best_ask - 1;
\* when should_quote is true with min_profit_cents >= 0 the recommended
\* quotes do not cross the book: recommended_bid < best_ask and
\* recommended_ask > best_bid.
C30_RecommendedQuotesWithinBook ==
    ( /\ pc = "evaluating"
      /\ IsCall("should_quote_market")
      /\ ob.best_bid # None
      /\ ob.best_ask # None
      /\ ~is_crossed(ob)
      /\ ob.best_bid.val >= MIN_PRICE
      /\ ob.best_ask.val <= MAX_PRICE )
    => /\ 2 * mid_price_cents <= ob.best_bid.val + ob.best_ask.val
       /\ ob.best_bid.val + ob.best_ask.val < 2 * mid_price_cents + 2
       /\ call.spread_cents = ob.best_ask.val - ob.best_bid.val
       /\ result.recommended_bid = ob.best_bid.val
       /\ result.recommended_ask \in {ob.best_ask.val - 1, ob.best_ask.val}
       /\ (result.should_quote /\ call.min_profit_cents >= 0) =>
             /\ result.recommended_bid < ob.best_ask.val
             /\ result.recommended_ask > ob.best_bid.val

\* C30 witness: a book with an odd spread of three cents or more, which the
\* driver is told to quote one cent inside the best ask
C30_Witness ==
    /\ pc = "evaluating"
    /\ IsCall("should_quote_market")
    /\ ob.best_bid # None
    /\ ob.best_ask # None
    /\ ~is_crossed(ob)
    /\ result.should_quote
    /\ result.recommended_bid = ob.best_bid.val
    /\ result.recommended_ask = ob.best_ask.val - 1
    /\ result.recommended_ask > ob.best_bid.val

====
